---- MODULE Spec2Model ----
(***************************************************************************)
(* Model of rt::Thread and rt::FunctionExports (src/kernel/thread.cc):     *)
(* the per-thread message loop (Run), the lifecycle (SetUp / TearDown),    *)
(* timeouts (SetTimeout + promotion in Run), the export table (Add / Get)  *)
(* and the preemption tick (TimerTick).                                    *)
(*                                                                         *)
(* One Thread object ("T") is modelled in full.  Two further engine        *)
(* threads ("A", "B") exist as message senders and as queue endpoints a    *)
(* TearDown may push to.  RT_ASSERT failures and null dereferences halt    *)
(* the kernel: pc = "fatal", after which nothing happens.                  *)
(***************************************************************************)
EXTENDS Integers, Sequences, FiniteSets, TLC

\* ---------------------------------------------------------------- bounds
MaxPush == 2
MaxId == 1
MaxTick == 2
MaxRef == 1
MaxExports == 2
MaxTimeouts == 2
MaxEligibleTicks == 9

\* ------------------------------------------------------------- constants
\* GLOBAL_engines()->MsPerTick(), used by SetTimeout
MsPerTick == 2
\* the literal of `++irq_ticks_counter_ > 7`
IrqTickLimit == 7

Self == "T"
Others == {"A", "B"}
EngineThreads == {Self} \cup Others
\* ResourceHandle<EngineThread>() : the empty handle
NullHandle == "null"
\* correlation ids of promises, interrupt handlers and SET_ARGUMENTS
Ids == 1..MaxId
\* slots of the timeout-callback pool
TimeoutIds == 1..MaxTimeouts
\* delays a script may ask for, in ms: 0..MaxTick ticks, odd ones with a
\* remainder the division by MsPerTick drops
TimeoutMs == {k * MsPerTick + (k % 2) : k \in 0..MaxTick}
\* v8 values a script may set as exit value: a plain one and one bound to
\* the thread's own context (not transferable)
ExitValues == {"val", "ctxhandle"}
Empty == "empty"
NoEfn == <<>>

VARIABLES
    type_,                  \* ThreadType: DEFAULT | IDLE | TERMINATED
    iv8_,                   \* "null" | "live" | "disposed" (dangling after Dispose)
    tpl_cache_,             \* "null" | "live" | "deleted"
    context_,               \* TRUE when the persistent context_ is non-empty
    args_,                  \* TRUE when args_ is non-empty
    parent_thread_,         \* handle of the parent's engine thread, or NullHandle
    parent_promise_id_,
    exit_value_,            \* Empty or a member of ExitValues
    ref_count_,
    terminate_,
    irq_ticks_counter_,
    v8_interrupt_enabled_,
    data_,                  \* FunctionExports::data_ : sequence of [export_id, value]
    export_id_,             \* FunctionExports::export_id_
    timeouts_,              \* pending deadlines: set of [id, when] (+ history: reg, rid, at, ms)
    timeout_data_,          \* ids with a timeout callback
    irq_data_,              \* ids with an interrupt handler
    promises_,              \* ids with a pending promise resolver
    queue,                  \* per engine thread: the message queue
    ticks_count,            \* thread_mgr_->ticks_count()
    pc,                     \* position of T's call stack: idle | drain | dispatch | script | fatal
    ticks_now,              \* Run's local
    messages,               \* Run's local: the batch taken from the queue
    idx,                    \* Run's loop position in messages (1-based)
    trycatch,               \* Run's v8::TryCatch: 0, or uid of the message that threw last
    retval,                 \* "none" while a call runs, else what the last Run returned
    \* history (observation only, never read by the program)
    op,                     \* the operation called last: none | SetUp | Run | TearDown
    nextUid,                \* uid of the next message pushed to T's queue from outside
    runNo,                  \* number of Run calls that took a non-empty batch
    dispatched,             \* this Run's dispatches, in order: sequence of [uid, effect]
    done,                   \* uids of all messages dispatched so far
    threw,                  \* uids of this batch's messages whose script threw
    logged,                 \* uids of messages whose exception Run printed
    spawned,                \* <<sender, recv_index>> of the dispatched SET_ARGUMENTS, or <<>>
    handles,                \* ExternalFunction objects returned by Add: [index, export_id, value]
    irq_requests,           \* number of iv8_->RequestInterrupt calls
    eligible_ticks,         \* number of TimerTick calls that found the flag set
    nreg,                   \* number of SetTimeout registrations made
    lifecycle,              \* the SetUp and TearDown calls completed on a non-idle thread, in order
    contexts                \* number of contexts made by tpl_cache_->NewContext()

lifeVars == <<type_, iv8_, tpl_cache_, lifecycle, contexts>>
scopeVars == <<context_, args_, parent_thread_, parent_promise_id_, exit_value_, spawned>>
liveVars == <<ref_count_, terminate_>>
tickVars == <<irq_ticks_counter_, irq_requests, eligible_ticks, v8_interrupt_enabled_>>
exportVars == <<data_, export_id_, handles>>
tableVars == <<timeouts_, timeout_data_, irq_data_, promises_, nreg>>
loopVars == <<ticks_now, messages, idx, trycatch, runNo, dispatched, done, threw, logged>>
callVars == <<pc, op, retval>>
envVars == <<queue, ticks_count, nextUid>>

vars == <<lifeVars, scopeVars, liveVars, tickVars, exportVars, tableVars, loopVars,
          callVars, envVars>>

\* ------------------------------------------------------------- messages
\* ThreadMessage(type, sender, data, exported_func, recv_index).  The
\* remaining fields are history: uid (a unique number), during (the batch
\* being dispatched at the time of the push, 0 when none was) and, for a
\* promoted timeout, its registration: its number reg, the id rid it was
\* registered under, the tick at and the delay ms.
Message(type, sender, payload, efn, recv_index) ==
    [type |-> type, sender |-> sender, payload |-> payload, efn |-> efn,
     recv_index |-> recv_index, uid |-> 0, during |-> 0,
     reg |-> 0, rid |-> 0, at |-> 0, ms |-> 0]

\* TransportData() : nothing packed
EmptyData == <<>>
\* TransportData::MoveValue: the packed form of a transferable value; a
\* value bound to the sender's context is refused and nothing is packed
MoveValue(v) ==
    IF v = "val" THEN [err |-> "NONE", data |-> <<"packed", v>>]
                 ELSE [err |-> "INVALID_TYPE", data |-> EmptyData]

\* EngineThread::PushMessage / TakeMessages
PushMessage(q, msg) == Append(q, msg)
TakeMessages(q) == [taken |-> q, rest |-> <<>>]

\* history number of the TIMEOUT_EVENT promoted for registration reg
TimerUid(reg) == 100 + reg

\* ----------------------------------------------------------------- Init
\* Thread::Thread
Init ==
    /\ type_ \in {"DEFAULT", "IDLE"}
    /\ iv8_ = "null"
    /\ tpl_cache_ = "null"
    /\ context_ = FALSE
    /\ args_ = FALSE
    /\ parent_thread_ = NullHandle
    /\ parent_promise_id_ = 0
    /\ exit_value_ = Empty
    /\ ref_count_ = 0
    /\ terminate_ = FALSE
    /\ irq_ticks_counter_ = 0
    /\ v8_interrupt_enabled_ = FALSE
    /\ data_ = <<>>
    /\ export_id_ = 0
    /\ timeouts_ = {}
    /\ timeout_data_ = {}
    /\ irq_data_ = {}
    /\ promises_ = {}
    /\ queue = [e \in EngineThreads |-> <<>>]
    /\ ticks_count = 0
    /\ pc = "idle"
    /\ ticks_now = 0
    /\ messages = <<>>
    /\ idx = 0
    /\ trycatch = 0
    /\ retval = "none"
    /\ op = "none"
    /\ nextUid = 1
    /\ runNo = 0
    /\ dispatched = <<>>
    /\ done = {}
    /\ threw = {}
    /\ logged = {}
    /\ spawned = <<>>
    /\ handles = {}
    /\ irq_requests = 0
    /\ eligible_ticks = 0
    /\ nreg = 0
    /\ lifecycle = <<>>
    /\ contexts = 0

\* a failed RT_ASSERT (or a null dereference) inside operation o halts the kernel
Fatal(o) ==
    /\ pc' = "fatal"
    /\ op' = o
    /\ UNCHANGED <<retval, lifeVars, scopeVars, liveVars, tickVars, exportVars, tableVars,
                   loopVars, envVars>>

\* --------------------------------------------------------- environment
\* messages another thread (or the kernel) may push to T's queue
Arguments ==
    {Message("SET_ARGUMENTS_NOPARENT", NullHandle, <<"p">>, NoEfn, 0)}
    \cup {Message("SET_ARGUMENTS", s, <<"p">>, NoEfn, c) : s \in Others, c \in Ids}
Evaluate == {Message("EVALUATE", NullHandle, <<"p">>, NoEfn, 0)}
Filler == {Message("EMPTY", NullHandle, EmptyData, NoEfn, 0)}
Settlements ==
    {Message(t, NullHandle, <<"p">>, NoEfn, i) :
        t \in {"FUNCTION_RETURN_RESOLVE", "FUNCTION_RETURN_REJECT"}, i \in Ids}
TimeoutEvents ==
    {Message("TIMEOUT_EVENT", NullHandle, EmptyData, NoEfn, i) : i \in TimeoutIds}
Interrupts == {Message("IRQ_RAISE", NullHandle, EmptyData, NoEfn, i) : i \in Ids}
\* calls through a handle: of an entry, with its generation or a stale one
Calls ==
    {Message("FUNCTION_CALL", "A", <<"p">>, <<i, g>>, 1) :
        i \in 0..(MaxExports - 1), g \in 1..(MaxExports + 1)}
Inbound ==
    Arguments \cup Evaluate \cup Filler \cup Settlements \cup TimeoutEvents
    \cup Interrupts \cup Calls

InBatch == pc \in {"dispatch", "script"}

\* a push of one of msgs to T's queue from outside, at any moment, as long
\* as fewer than limit + 1 messages have been pushed
PushWithin(msgs, limit) ==
    /\ pc # "fatal"
    /\ nextUid <= limit
    /\ \E m \in msgs :
         queue' = [queue EXCEPT ![Self] = PushMessage(@,
                     [m EXCEPT !.uid = nextUid, !.during = IF InBatch THEN runNo ELSE 0])]
    /\ nextUid' = nextUid + 1
    /\ UNCHANGED <<ticks_count, lifeVars, scopeVars, liveVars, tickVars, exportVars,
                   tableVars, loopVars, callVars>>

PushOf(msgs) == PushWithin(msgs, MaxPush)

\* the thread manager's tick counter advances
AdvanceTick ==
    /\ pc # "fatal"
    /\ ticks_count < MaxTick
    /\ ticks_count' = ticks_count + 1
    /\ UNCHANGED <<queue, nextUid, lifeVars, scopeVars, liveVars, tickVars, exportVars,
                   tableVars, loopVars, callVars>>

\* ---------------------------------------------------------------- SetUp
\* SetUp, had it not asserted that the thread has no isolate yet
SetUpAgain ==
    /\ pc = "idle"
    /\ IF type_ = "IDLE"
       THEN /\ op' = "SetUp"
            /\ UNCHANGED <<pc, retval, lifeVars, scopeVars, liveVars, tickVars, exportVars,
                           tableVars, loopVars, envVars>>
       ELSE /\ iv8_' = "live"
            /\ tpl_cache_' = "live"
            /\ lifecycle' = Append(lifecycle, "SetUp")
            /\ op' = "SetUp"
            /\ UNCHANGED <<pc, retval, type_, contexts, scopeVars, liveVars, tickVars,
                           exportVars, tableVars, loopVars, envVars>>

\* SetUp, had it not skipped the idle thread
SetUpIdleToo ==
    /\ pc = "idle"
    /\ IF iv8_ # "null" \/ tpl_cache_ # "null"
       THEN Fatal("SetUp")
       ELSE /\ iv8_' = "live"
            /\ tpl_cache_' = "live"
            /\ lifecycle' = Append(lifecycle, "SetUp")
            /\ op' = "SetUp"
            /\ UNCHANGED <<pc, retval, type_, contexts, scopeVars, liveVars, tickVars,
                           exportVars, tableVars, loopVars, envVars>>

SetUp ==
    /\ pc = "idle"
    /\ IF type_ = "IDLE"
       THEN /\ op' = "SetUp"
            /\ UNCHANGED <<pc, retval, lifeVars, scopeVars, liveVars, tickVars, exportVars,
                           tableVars, loopVars, envVars>>
       ELSE IF iv8_ # "null" \/ tpl_cache_ # "null"
            THEN Fatal("SetUp")
            ELSE /\ iv8_' = "live"
                 /\ tpl_cache_' = "live"
                 /\ lifecycle' = Append(lifecycle, "SetUp")
                 /\ op' = "SetUp"
                 /\ UNCHANGED <<pc, retval, type_, contexts, scopeVars, liveVars, tickVars, exportVars,
                                tableVars, loopVars, envVars>>

\* ------------------------------------------------------------------ Run
\* Timeouts::Elapsed: the earliest pending deadline has been reached
Elapsed(ts, now) == \E e \in ts : e.when <= now

\* the entries `while (timeouts_.Elapsed(ticks_now)) timeouts_.Take()` removes
Due(ts, now) == {e \in ts : Elapsed({e}, now)}

\* the orders in which Take() can pop the entries of due: earliest deadline
\* first, equal deadlines in either order
TakeOrders(due) ==
    {ord \in [1..Cardinality(due) -> due] :
        /\ \A i, j \in 1..Cardinality(due) : i # j => ord[i] # ord[j]
        /\ \A i, j \in 1..Cardinality(due) : i < j => ord[i].when <= ord[j].when}

\* PushAll, had the promoted messages been put in front of the queue
PushAllFront(q, msgs) == msgs \o q

\* lines 157-165: one PushMessage per timeout taken, in the order taken
RECURSIVE PushAll(_, _)
PushAll(q, msgs) ==
    IF msgs = <<>> THEN q ELSE PushAll(PushMessage(q, Head(msgs)), Tail(msgs))

\* the message Run builds for a taken timeout
TimeoutEvent(e) ==
    [Message("TIMEOUT_EVENT", NullHandle, EmptyData, NoEfn, e.id)
        EXCEPT !.uid = TimerUid(e.reg), !.reg = e.reg, !.rid = e.rid, !.at = e.at,
               !.ms = e.ms]

\* lines 144-165: entry checks and promotion of elapsed timeouts
RunPromote ==
    /\ pc = "idle"
    /\ IF type_ = "TERMINATED"
       THEN Fatal("Run")
       ELSE IF type_ = "IDLE"
       THEN /\ retval' = "true"
            /\ op' = "Run"
            /\ UNCHANGED <<pc, lifeVars, scopeVars, liveVars, tickVars, exportVars, tableVars,
                           loopVars, envVars>>
       ELSE IF iv8_ = "null" \/ tpl_cache_ = "null"
       THEN Fatal("Run")
       ELSE LET due == Due(timeouts_, ticks_count) IN
            /\ ticks_now' = ticks_count
            /\ timeouts_' = timeouts_ \ due
            /\ \E ord \in TakeOrders(due) :
                 queue' = [queue EXCEPT ![Self] =
                             PushAll(@, [i \in 1..Cardinality(due) |-> TimeoutEvent(ord[i])])]
            /\ pc' = "drain"
            /\ op' = "Run"
            /\ retval' = "none"
            /\ UNCHANGED <<lifeVars, scopeVars, liveVars, tickVars, exportVars,
                           timeout_data_, irq_data_, promises_, nreg, ticks_count, nextUid,
                           messages, idx, trycatch, runNo, dispatched, done, threw, logged>>

\* RunDrain, had it read the queue without taking the messages out of it
RunDrainPeek ==
    /\ pc = "drain"
    /\ LET t == TakeMessages(queue[Self]) IN
       /\ UNCHANGED queue
       /\ IF Len(t.taken) = 0
          THEN /\ retval' = "true"
               /\ pc' = "idle"
               /\ UNCHANGED <<context_, contexts, messages, idx, trycatch, runNo>>
          ELSE /\ messages' = t.taken
               /\ context_' = TRUE
               /\ contexts' = IF context_ THEN contexts ELSE contexts + 1
               /\ trycatch' = 0
               /\ idx' = 1
               /\ runNo' = runNo + 1
               /\ pc' = "dispatch"
               /\ UNCHANGED retval
    /\ UNCHANGED <<op, type_, iv8_, tpl_cache_, lifecycle, args_, parent_thread_,
                   parent_promise_id_, exit_value_, spawned, liveVars, tickVars, exportVars, tableVars, ticks_count, nextUid,
                   ticks_now, dispatched, done, threw, logged>>

\* RunDrain, had it made a new context for every non-empty batch
RunDrainNewContext ==
    /\ pc = "drain"
    /\ LET t == TakeMessages(queue[Self]) IN
       /\ queue' = [queue EXCEPT ![Self] = t.rest]
       /\ IF Len(t.taken) = 0
          THEN /\ retval' = "true"
               /\ pc' = "idle"
               /\ UNCHANGED <<context_, contexts, messages, idx, trycatch, runNo>>
          ELSE /\ messages' = t.taken
               /\ context_' = TRUE
               /\ contexts' = contexts + 1
               /\ trycatch' = 0
               /\ idx' = 1
               /\ runNo' = runNo + 1
               /\ pc' = "dispatch"
               /\ UNCHANGED retval
    /\ UNCHANGED <<op, type_, iv8_, tpl_cache_, lifecycle, args_, parent_thread_,
                   parent_promise_id_, exit_value_, spawned, liveVars, tickVars, exportVars, tableVars, ticks_count, nextUid,
                   ticks_now, dispatched, done, threw, logged>>

\* lines 167-185: the snapshot of the queue, the lazily created context
RunDrain ==
    /\ pc = "drain"
    /\ LET t == TakeMessages(queue[Self]) IN
       /\ queue' = [queue EXCEPT ![Self] = t.rest]
       /\ IF Len(t.taken) = 0
          THEN /\ retval' = "true"
               /\ pc' = "idle"
               /\ UNCHANGED <<context_, contexts, messages, idx, trycatch, runNo>>
          ELSE /\ messages' = t.taken
               /\ context_' = TRUE
               /\ contexts' = IF context_ THEN contexts ELSE contexts + 1
               /\ trycatch' = 0
               /\ idx' = 1
               /\ runNo' = runNo + 1
               /\ pc' = "dispatch"
               /\ UNCHANGED retval
    /\ UNCHANGED <<op, type_, iv8_, tpl_cache_, lifecycle, args_, parent_thread_,
                   parent_promise_id_, exit_value_, spawned, liveVars, tickVars, exportVars, tableVars, ticks_count, nextUid,
                   ticks_now, dispatched, done, threw, logged>>

\* Get, had it not compared the generation
GetAnyGeneration(data, index, export_id) == data[index + 1].value

\* FunctionExports::Get: Empty stands for the empty v8::Local
Get(data, index, export_id) ==
    IF data[index + 1].export_id # export_id THEN Empty ELSE data[index + 1].value

\* Current, had the loop run from the back of the batch
CurrentReversed(msgs, i) == msgs[Len(msgs) + 1 - i]

\* line 187: the message of the loop's i-th iteration
Current(msgs, i) == msgs[i]

\* NextIndex, had a thrown exception left the loop
NextIndexAbort(i, n, thrown) == IF thrown THEN n + 1 ELSE i + 1

\* the loop goes on with the next message, whether or not the script threw
NextIndex(i, n, thrown) == i + 1

\* ShouldStop, had it looked at the reference count alone
ShouldStopCount(ref_count, terminate) == ref_count = 0

\* ShouldStop, had the two conditions been joined by `&&`
ShouldStopBoth(ref_count, terminate) == ref_count = 0 /\ terminate

\* line 307: the thread is to stop
ShouldStop(ref_count, terminate) == ref_count = 0 \/ terminate

Record(m, effect) == [uid |-> m.uid, effect |-> effect]

\* the case opens its V8InterruptScope and calls into script code
EnterScript(m, effect) ==
    /\ v8_interrupt_enabled_' = TRUE
    /\ dispatched' = Append(dispatched, Record(m, effect))
    /\ done' = done \cup {m.uid}
    /\ pc' = "script"
    /\ UNCHANGED <<idx, threw, trycatch>>

\* a case of the switch that calls no script (thrown: a compile error)
NextMessage(m, effect, thrown) ==
    /\ dispatched' = Append(dispatched, Record(m, effect))
    /\ done' = done \cup {m.uid}
    /\ idx' = NextIndex(idx, Len(messages), thrown)
    /\ trycatch' = IF thrown THEN m.uid ELSE trycatch
    /\ threw' = IF thrown THEN threw \cup {m.uid} ELSE threw
    /\ UNCHANGED <<v8_interrupt_enabled_, pc>>

DispatchFatal ==
    /\ pc' = "fatal"
    /\ UNCHANGED <<idx, dispatched, done, threw, trycatch, v8_interrupt_enabled_>>

\* DispatchReturn, had it left the resolver in the table
DispatchReturnKeep(m) ==
    /\ promises_' = promises_
    /\ IF m.recv_index \in promises_
       THEN EnterScript(m, "settle")
       ELSE DispatchFatal
    /\ UNCHANGED <<scopeVars, timeout_data_>>

\* lines 251-274: TakePromise, then Resolve or Reject; settling through an
\* empty resolver dereferences null
DispatchReturn(m) ==
    /\ promises_' = promises_ \ {m.recv_index}
    /\ IF m.recv_index \in promises_
       THEN EnterScript(m, "settle")
       ELSE DispatchFatal
    /\ UNCHANGED <<scopeVars, timeout_data_>>

\* lines 187-305: one iteration of the loop, up to the script call if any
RunDispatch ==
    /\ pc = "dispatch"
    /\ idx <= Len(messages)
    /\ LET m == Current(messages, idx) IN
       CASE m.type = "SET_ARGUMENTS_NOPARENT" ->
              IF args_
              THEN DispatchFatal /\ UNCHANGED <<scopeVars, timeout_data_, promises_>>
              ELSE /\ args_' = TRUE
                   /\ NextMessage(m, "none", FALSE)
                   /\ UNCHANGED <<context_, parent_thread_, parent_promise_id_, exit_value_,
                                  spawned, timeout_data_, promises_>>
         [] m.type = "SET_ARGUMENTS" ->
              IF args_
              THEN DispatchFatal /\ UNCHANGED <<scopeVars, timeout_data_, promises_>>
              ELSE /\ args_' = TRUE
                   /\ parent_thread_' = m.sender
                   /\ parent_promise_id_' = m.recv_index
                   /\ spawned' = <<m.sender, m.recv_index>>
                   /\ NextMessage(m, "none", FALSE)
                   /\ UNCHANGED <<context_, exit_value_, timeout_data_, promises_>>
         [] m.type = "EVALUATE" ->
              \* the source compiles and runs, or the compiler throws
              /\ \/ EnterScript(m, "script")
                 \/ NextMessage(m, "none", TRUE)
              /\ UNCHANGED <<scopeVars, timeout_data_, promises_>>
         [] m.type = "FUNCTION_CALL" ->
              /\ IF m.efn = NoEfn \/ ~(m.efn[1] < Len(data_))
                 THEN DispatchFatal
                 ELSE IF Get(data_, m.efn[1], m.efn[2]) = Empty
                      THEN EnterScript(m, "wrapper(null)")
                      ELSE EnterScript(m, "wrapper(fn)")
              /\ UNCHANGED <<scopeVars, timeout_data_, promises_>>
         [] m.type \in {"FUNCTION_RETURN_RESOLVE", "FUNCTION_RETURN_REJECT"} ->
              DispatchReturn(m)
         [] m.type = "TIMEOUT_EVENT" ->
              \* TakeTimeoutData, then RT_ASSERT(fnv->IsFunction())
              /\ timeout_data_' = timeout_data_ \ {m.recv_index}
              /\ IF m.recv_index \in timeout_data_
                 THEN EnterScript(m, "callback")
                 ELSE DispatchFatal
              /\ UNCHANGED <<scopeVars, promises_>>
         [] m.type = "IRQ_RAISE" ->
              \* GetIRQData, then RT_ASSERT(fnv->IsFunction())
              /\ IF m.recv_index \in irq_data_
                 THEN EnterScript(m, "handler")
                 ELSE DispatchFatal
              /\ UNCHANGED <<scopeVars, timeout_data_, promises_>>
         [] m.type = "EMPTY" ->
              /\ NextMessage(m, "none", FALSE)
              /\ UNCHANGED <<scopeVars, timeout_data_, promises_>>
         [] OTHER ->
              DispatchFatal /\ UNCHANGED <<scopeVars, timeout_data_, promises_>>
    /\ UNCHANGED <<op, retval, lifeVars, liveVars, irq_ticks_counter_, irq_requests,
                   eligible_ticks, exportVars, timeouts_, irq_data_, nreg, envVars,
                   ticks_now, messages, runNo, logged>>

\* the script call of the current message returns, normally or by throwing;
\* the V8InterruptScope closes
ScriptReturn ==
    /\ pc = "script"
    /\ \E thrown \in BOOLEAN :
         /\ trycatch' = IF thrown THEN messages[idx].uid ELSE trycatch
         /\ threw' = IF thrown THEN threw \cup {messages[idx].uid} ELSE threw
         /\ idx' = NextIndex(idx, Len(messages), thrown)
    /\ v8_interrupt_enabled_' = FALSE
    /\ pc' = "dispatch"
    /\ UNCHANGED <<op, retval, lifeVars, scopeVars, liveVars, irq_ticks_counter_,
                   irq_requests, eligible_ticks, exportVars, tableVars, envVars,
                   ticks_now, messages, runNo, dispatched, done, logged>>

\* lines 307-338: after the loop
RunFinish ==
    /\ pc = "dispatch"
    /\ idx > Len(messages)
    /\ IF ShouldStop(ref_count_, terminate_)
       THEN /\ terminate_' = TRUE
            /\ retval' = "false"
            /\ UNCHANGED logged
       ELSE /\ logged' = IF trycatch # 0 THEN logged \cup {trycatch} ELSE logged
            /\ retval' = "true"
            /\ UNCHANGED terminate_
    /\ trycatch' = 0
    /\ messages' = <<>>
    /\ dispatched' = <<>>
    /\ threw' = {}
    /\ idx' = 0
    /\ pc' = "idle"
    /\ UNCHANGED <<op, lifeVars, scopeVars, ref_count_, tickVars, exportVars, tableVars,
                   envVars, ticks_now, runNo, done>>

\* ------------------------------------------------- what script code does
\* SetTimeout, had it added the milliseconds to the tick count undivided
SetTimeoutInMs(ts, timeout_id, timeout_ms, now, reg) ==
    ts \cup {[id |-> timeout_id, when |-> now + timeout_ms,
              reg |-> reg, rid |-> timeout_id, at |-> now, ms |-> timeout_ms]}

\* Thread::SetTimeout: the deadline in ticks
SetTimeout(ts, timeout_id, timeout_ms, now, reg) ==
    ts \cup {[id |-> timeout_id, when |-> now + (timeout_ms \div MsPerTick),
              reg |-> reg, rid |-> timeout_id, at |-> now, ms |-> timeout_ms]}

\* Add, had it stamped the entry without incrementing export_id_
AddSameGeneration(data, last_id, v) ==
    LET export_id == last_id IN
    [data |-> Append(data, [export_id |-> export_id, value |-> v]),
     export_id_ |-> export_id,
     handle |-> [index |-> Len(data), export_id |-> export_id, value |-> v]]

\* FunctionExports::Add
Add(data, last_id, v) ==
    LET export_id == last_id + 1 IN
    [data |-> Append(data, [export_id |-> export_id, value |-> v]),
     export_id_ |-> export_id,
     handle |-> [index |-> Len(data), export_id |-> export_id, value |-> v]]

\* the i-th function a script exports
Fn(i) == <<"fn", i>>

\* setTimeout(fn, ms): the callback is stored under a free id, then SetTimeout
ScriptSetTimeoutOf(delays) ==
    /\ pc = "script"
    /\ nreg < MaxTimeouts
    /\ \E id \in TimeoutIds \ timeout_data_, ms \in delays :
         /\ timeout_data_' = timeout_data_ \cup {id}
         /\ timeouts_' = SetTimeout(timeouts_, id, ms, ticks_count, nreg + 1)
    /\ nreg' = nreg + 1
    /\ UNCHANGED <<irq_data_, promises_, lifeVars, scopeVars, liveVars, tickVars,
                   exportVars, loopVars, callVars, envVars>>

\* a call through another thread's ExternalFunction leaves a resolver behind
ScriptAddPromise ==
    /\ pc = "script"
    /\ \E id \in Ids \ promises_ : promises_' = promises_ \cup {id}
    /\ UNCHANGED <<timeouts_, timeout_data_, irq_data_, nreg, lifeVars, scopeVars,
                   liveVars, tickVars, exportVars, loopVars, callVars, envVars>>

\* an interrupt handler is installed
ScriptSetIRQ ==
    /\ pc = "script"
    /\ \E id \in Ids \ irq_data_ : irq_data_' = irq_data_ \cup {id}
    /\ UNCHANGED <<timeouts_, timeout_data_, promises_, nreg, lifeVars, scopeVars,
                   liveVars, tickVars, exportVars, loopVars, callVars, envVars>>

\* a function is exported: exports_.Add
ScriptExport ==
    /\ pc = "script"
    /\ Len(data_) < MaxExports
    /\ LET r == Add(data_, export_id_, Fn(Len(data_))) IN
       /\ data_' = r.data
       /\ export_id_' = r.export_id_
       /\ handles' = handles \cup {r.handle}
    /\ UNCHANGED <<lifeVars, scopeVars, liveVars, tickVars, tableVars, loopVars,
                   callVars, envVars>>

\* Ref / Unref
ScriptRef ==
    /\ pc = "script"
    /\ \/ ref_count_ < MaxRef /\ ref_count_' = ref_count_ + 1
       \/ ref_count_ > 0 /\ ref_count_' = ref_count_ - 1
    /\ UNCHANGED <<terminate_, lifeVars, scopeVars, tickVars, exportVars, tableVars,
                   loopVars, callVars, envVars>>

\* runtime.exit(value): the exit value is kept and the termination flag set
ScriptExitWith(values) ==
    /\ pc = "script"
    /\ ~terminate_
    /\ \E v \in values : exit_value_' = v
    /\ terminate_' = TRUE
    /\ UNCHANGED <<ref_count_, context_, args_, parent_thread_, parent_promise_id_,
                   spawned, lifeVars, tickVars, exportVars, tableVars, loopVars,
                   callVars, envVars>>

\* ------------------------------------------------------------- TearDown
\* ReturnMessage, had it carried the thread's own recv index instead of
\* the parent's promise id
ReturnMessageNoId(promise_id, data) ==
    Message("FUNCTION_RETURN_RESOLVE", Self, data, NoEfn, 0)

\* lines 113-116: the message handed to the parent
ReturnMessage(promise_id, data) ==
    Message("FUNCTION_RETURN_RESOLVE", Self, data, NoEfn, promise_id)

\* TearDown, had it left out irq_data_.Clear()
TearDownKeepIrq ==
    /\ pc = "idle"
    /\ IF type_ # "DEFAULT" \/ iv8_ # "live" \/ tpl_cache_ # "live"
       THEN Fatal("TearDown")
       ELSE IF parent_thread_ = NullHandle
       \* thread.get() of the empty handle: lptr->thread() dereferences null
       THEN Fatal("TearDown")
       ELSE LET data == IF exit_value_ # Empty THEN MoveValue(exit_value_).data
                                               ELSE EmptyData
            IN
            /\ queue' = [queue EXCEPT ![parent_thread_] =
                            PushMessage(@, ReturnMessage(parent_promise_id_, data))]
            /\ timeout_data_' = {}
            /\ irq_data_' = irq_data_
            /\ promises_' = {}
            /\ context_' = FALSE
            /\ args_' = FALSE
            /\ exit_value_' = Empty
            /\ tpl_cache_' = "deleted"
            /\ iv8_' = "disposed"
            /\ type_' = "TERMINATED"
            /\ lifecycle' = Append(lifecycle, "TearDown")
            /\ op' = "TearDown"
            /\ UNCHANGED <<pc, retval, contexts, parent_thread_, parent_promise_id_, spawned,
                           liveVars, tickVars, exportVars, timeouts_, nreg, ticks_count,
                           nextUid, loopVars>>

TearDown ==
    /\ pc = "idle"
    /\ IF type_ # "DEFAULT" \/ iv8_ # "live" \/ tpl_cache_ # "live"
       THEN Fatal("TearDown")
       ELSE IF parent_thread_ = NullHandle
       \* thread.get() of the empty handle: lptr->thread() dereferences null
       THEN Fatal("TearDown")
       ELSE LET data == IF exit_value_ # Empty THEN MoveValue(exit_value_).data
                                               ELSE EmptyData
            IN
            /\ queue' = [queue EXCEPT ![parent_thread_] =
                            PushMessage(@, ReturnMessage(parent_promise_id_, data))]
            /\ timeout_data_' = {}
            /\ irq_data_' = {}
            /\ promises_' = {}
            /\ context_' = FALSE
            /\ args_' = FALSE
            /\ exit_value_' = Empty
            /\ tpl_cache_' = "deleted"
            /\ iv8_' = "disposed"
            /\ type_' = "TERMINATED"
            /\ lifecycle' = Append(lifecycle, "TearDown")
            /\ op' = "TearDown"
            /\ UNCHANGED <<pc, retval, contexts, parent_thread_, parent_promise_id_, spawned,
                           liveVars, tickVars, exportVars, timeouts_, nreg, ticks_count,
                           nextUid, loopVars>>

\* ------------------------------------------------------------ TimerTick
\* TickFires, had the comparison been `>=`
TickFiresEarly(counter) == counter + 1 >= IrqTickLimit

\* `++irq_ticks_counter_ > 7`
TickFires(counter) == counter + 1 > IrqTickLimit

\* TimerTick, had it counted without looking at the flag
TimerTickAnyway ==
    /\ pc # "fatal"
    /\ eligible_ticks < MaxEligibleTicks
    /\ eligible_ticks' = IF v8_interrupt_enabled_ THEN eligible_ticks + 1 ELSE eligible_ticks
    /\ IF TickFires(irq_ticks_counter_)
       THEN /\ irq_requests' = irq_requests + 1
            /\ irq_ticks_counter_' = 0
       ELSE /\ irq_ticks_counter_' = irq_ticks_counter_ + 1
            /\ UNCHANGED irq_requests
    /\ UNCHANGED <<v8_interrupt_enabled_, lifeVars, scopeVars, liveVars, exportVars,
                   tableVars, loopVars, callVars, envVars>>

\* lines 350-359
TimerTick ==
    /\ pc # "fatal"
    /\ eligible_ticks < MaxEligibleTicks
    /\ IF ~v8_interrupt_enabled_
       THEN UNCHANGED <<irq_ticks_counter_, irq_requests, eligible_ticks>>
       ELSE /\ eligible_ticks' = eligible_ticks + 1
            /\ IF TickFires(irq_ticks_counter_)
               THEN /\ irq_requests' = irq_requests + 1
                    /\ irq_ticks_counter_' = 0
               ELSE /\ irq_ticks_counter_' = irq_ticks_counter_ + 1
                    /\ UNCHANGED irq_requests
    /\ UNCHANGED <<v8_interrupt_enabled_, lifeVars, scopeVars, liveVars, exportVars,
                   tableVars, loopVars, callVars, envVars>>

\* ---------------------------------------------------------------- specs
\* The message loop: every message kind, every table a dispatch reads.
\* The tick counter stands still here, so timeouts are immediate ones.
PushAny == PushOf(Inbound)
ScriptExit == ScriptExitWith({Empty})
ScriptSetImmediate == ScriptSetTimeoutOf({0})

Next ==
    \/ PushAny
    \/ SetUp
    \/ RunPromote
    \/ RunDrain
    \/ RunDispatch
    \/ ScriptReturn
    \/ RunFinish
    \/ ScriptSetImmediate
    \/ ScriptAddPromise
    \/ ScriptSetIRQ
    \/ ScriptExport
    \/ ScriptRef
    \/ ScriptExit

Spec == Init /\ [][Next]_vars

\* Timeouts: registration, the tick counter, promotion and dispatch.
PushTimed == PushOf(Evaluate \cup Filler \cup TimeoutEvents)
ScriptSetTimeout == ScriptSetTimeoutOf(TimeoutMs)

NextTimeout ==
    \/ PushTimed
    \/ AdvanceTick
    \/ SetUp
    \/ RunPromote
    \/ RunDrain
    \/ RunDispatch
    \/ ScriptReturn
    \/ RunFinish
    \/ ScriptSetTimeout
    \/ ScriptRef

SpecTimeout == Init /\ [][NextTimeout]_vars

\* The lifecycle: arguments, exit, teardown and the handoff to the parent.
PushSpawn == PushOf(Arguments \cup Evaluate)
ScriptExitValue == ScriptExitWith({Empty} \cup ExitValues)

NextLife ==
    \/ PushSpawn
    \/ SetUp
    \/ RunPromote
    \/ RunDrain
    \/ RunDispatch
    \/ ScriptReturn
    \/ RunFinish
    \/ ScriptRef
    \/ ScriptExitValue
    \/ TearDown

SpecLife == Init /\ [][NextLife]_vars

\* Preemption: timer ticks against the script calls of a batch.
PushEvaluate == PushOf(Evaluate)

NextTimer ==
    \/ PushEvaluate
    \/ SetUp
    \/ RunPromote
    \/ RunDrain
    \/ RunDispatch
    \/ ScriptReturn
    \/ RunFinish
    \/ TimerTick

SpecTimer == Init /\ [][NextTimer]_vars

\* The export table: scripts that export functions, calls through handles.
PushCalls == PushOf(Evaluate \cup Calls)

NextExports ==
    \/ PushCalls
    \/ SetUp
    \/ RunPromote
    \/ RunDrain
    \/ RunDispatch
    \/ ScriptReturn
    \/ RunFinish
    \/ ScriptExport

SpecExports == Init /\ [][NextExports]_vars

\* The pending-operation tables: settlements, timeout events and interrupts
\* against the entries scripts have made, with one push more than elsewhere
\* so that an entry made by a script can be addressed twice.
PushTables ==
    PushWithin(Evaluate \cup Settlements \cup TimeoutEvents \cup Interrupts, MaxPush + 1)

NextTables ==
    \/ PushTables
    \/ SetUp
    \/ RunPromote
    \/ RunDrain
    \/ RunDispatch
    \/ ScriptReturn
    \/ RunFinish
    \/ ScriptSetImmediate
    \/ ScriptAddPromise
    \/ ScriptSetIRQ

SpecTables == Init /\ [][NextTables]_vars

\* The idle thread: every message kind and the tick counter against SetUp
\* and Run.
NextIdle ==
    \/ PushAny
    \/ AdvanceTick
    \/ SetUp
    \/ RunPromote
    \/ RunDrain
    \/ RunDispatch
    \/ ScriptReturn
    \/ RunFinish

SpecIdle == Init /\ [][NextIdle]_vars

\* Teardown of a thread with entries in its tables; the thread is spawned
\* by A, since TearDown completes for a thread with a parent only.
FromParent == {m \in Arguments : m.sender = "A" /\ m.recv_index = 1}
PushChild == PushOf(FromParent \cup Evaluate)

NextTearDown ==
    \/ PushChild
    \/ SetUp
    \/ RunPromote
    \/ RunDrain
    \/ RunDispatch
    \/ ScriptReturn
    \/ RunFinish
    \/ ScriptSetImmediate
    \/ ScriptAddPromise
    \/ ScriptSetIRQ
    \/ TearDown

SpecTearDown == Init /\ [][NextTearDown]_vars

\* Run after Run: the reference count, timeouts and timer ticks against the
\* termination flag, which here only Run can set.
NextSticky ==
    \/ PushEvaluate
    \/ SetUp
    \/ RunPromote
    \/ RunDrain
    \/ RunDispatch
    \/ ScriptReturn
    \/ RunFinish
    \/ ScriptRef
    \/ ScriptSetImmediate
    \/ TimerTick

SpecSticky == Init /\ [][NextSticky]_vars

\* ======================================================================
\* Properties
\* ======================================================================
LoopDone == pc = "dispatch" /\ idx > Len(messages)
External(m) == m.reg = 0
\* positions of the batch not dispatched yet
PendingAt == {i \in 1..Len(messages) : i >= idx /\ ~(pc = "script" /\ i = idx)}
QueueUids == {queue[Self][i].uid : i \in 1..Len(queue[Self])}
PendingUids == {messages[i].uid : i \in PendingAt}

\* C1: the messages of a batch are dispatched one by one in the order they
\* had in the queue, which is the order of their arrival: at every moment
\* the dispatches made so far are the first messages of the batch, in batch
\* order, and when the loop ends each message has been dispatched once.
C1_DispatchInArrivalOrder ==
    /\ InBatch =>
         /\ Len(dispatched) = (IF pc = "script" THEN idx ELSE idx - 1)
         /\ Len(dispatched) <= Len(messages)
         /\ \A i \in 1..Len(dispatched) : dispatched[i].uid = messages[i].uid
         /\ \A i, j \in 1..Len(messages) :
              (i < j /\ External(messages[i]) /\ External(messages[j]))
                  => messages[i].uid < messages[j].uid
    /\ LoopDone => Len(dispatched) = Len(messages)

\* a batch of several messages has been dispatched to its end
C1_Witness ==
    /\ LoopDone
    /\ Len(messages) >= 2
    /\ \A i \in 1..Len(messages) : dispatched[i].uid = messages[i].uid

\* C2: the queue is snapshotted once per Run: no message of the batch was
\* pushed while this batch was being dispatched; such a message stays in the
\* queue; and every message pushed so far is in exactly one place: the
\* queue, the undispatched rest of the batch, or among the dispatched.
C2_SnapshotOncePerRun ==
    /\ InBatch => \A i \in 1..Len(messages) : messages[i].during # runNo
    /\ \A u \in 1..(nextUid - 1) :
         /\ (u \in QueueUids) \/ (u \in PendingUids) \/ (u \in done)
         /\ ~(u \in QueueUids /\ u \in PendingUids)
         /\ ~(u \in QueueUids /\ u \in done)
         /\ ~(u \in PendingUids /\ u \in done)
    /\ \A i, j \in 1..Len(queue[Self]) : i # j => queue[Self][i].uid # queue[Self][j].uid
    /\ \A i, j \in 1..Len(messages) : i # j => messages[i].uid # messages[j].uid
    /\ \A i, j \in 1..Len(dispatched) : i # j => dispatched[i].uid # dispatched[j].uid

\* a message pushed during an earlier batch is dispatched in this one
C2_Witness ==
    /\ InBatch
    /\ \E i \in 1..Len(dispatched) :
         /\ messages[i].during # 0
         /\ messages[i].during < runNo
         /\ dispatched[i].uid = messages[i].uid

\* T + D of a registration made at tick `at` with a delay of `ms`
\* milliseconds, D being the delay in whole ticks
Deadline(r) == r.at + (r.ms \div MsPerTick)
QueueAt == 1..Len(queue[Self])
\* how often registration r is present: pending, promoted and waiting, dispatched
Pending(r) == Cardinality({e \in timeouts_ : e.reg = r})
Waiting(r) ==
    Cardinality({i \in QueueAt : queue[Self][i].reg = r})
    + Cardinality({i \in PendingAt : messages[i].reg = r})
Fired(r) == IF TimerUid(r) \in done THEN 1 ELSE 0

\* C3: a timeout registered at tick T with a delay of D ticks is promoted
\* by the first Run whose tick is >= T+D and by none before: after the
\* promotion of a Run no deadline <= its tick is left in the table; every
\* TIMEOUT_EVENT Run has built carries the registered id and was built at a
\* tick >= T+D; it is in the queue only until that Run's snapshot, so it is
\* in that Run's batch; and each registration is pending, or promoted, or
\* dispatched, exactly once in all.
C3_TimeoutAtDeadline ==
    /\ pc = "drain" => \A e \in timeouts_ : Deadline(e) > ticks_now
    /\ \A i \in QueueAt :
         ~External(queue[Self][i]) =>
             /\ pc = "drain"
             /\ Deadline(queue[Self][i]) <= ticks_now
             /\ queue[Self][i].type = "TIMEOUT_EVENT"
             /\ queue[Self][i].recv_index = queue[Self][i].rid
    /\ \A i \in 1..Len(messages) :
         ~External(messages[i]) =>
             /\ Deadline(messages[i]) <= ticks_now
             /\ messages[i].type = "TIMEOUT_EVENT"
             /\ messages[i].recv_index = messages[i].rid
    /\ \A r \in 1..nreg : Pending(r) + Waiting(r) + Fired(r) = 1

\* a timeout with a delay of at least one tick has been promoted and its
\* callback called
C3_Witness ==
    /\ InBatch
    /\ \E i \in 1..Len(dispatched) :
         /\ ~External(messages[i])
         /\ messages[i].ms \div MsPerTick >= 1
         /\ dispatched[i].effect = "callback"
         /\ ticks_now >= Deadline(messages[i])

\* a Run call of a DEFAULT thread has returned and nothing was called since
Returned == pc = "idle" /\ op = "Run" /\ type_ = "DEFAULT" /\ retval # "none"

\* C4 as stated: after every Run of a DEFAULT thread, the value returned is
\* false exactly when the reference count is zero or the termination flag is
\* set.  (Between the return and the next call neither can change.)
C4_AsStated ==
    Returned => (retval = "false" <=> (ref_count_ = 0 \/ terminate_))

\* C4, amended: a Run that took a non-empty batch returns only after the
\* whole batch has been dispatched, and returns false exactly when the
\* reference count is zero or the termination flag is set at that moment; a
\* Run that found no message returns true whatever the count and the flag.
C4_ReturnAfterBatch ==
    [][/\ (pc = "dispatch" /\ pc' = "idle") =>
            /\ Len(dispatched) = Len(messages)
            /\ \A i \in 1..Len(messages) : dispatched[i].uid = messages[i].uid
            /\ retval' = (IF ref_count_ = 0 \/ terminate_ THEN "false" ELSE "true")
       /\ (pc = "drain" /\ pc' = "idle") =>
            /\ queue[Self] = <<>>
            /\ retval' = "true"
       /\ (retval' # retval /\ retval' = "false") => pc = "dispatch"]_vars

\* a Run has returned false although the count is above zero: the flag was set
C4_Witness == Returned /\ retval = "false" /\ ref_count_ > 0 /\ done # {}

\* the payload the parent is to get for exit value v: its serialized form,
\* nothing when no exit value was set
Serialized(v) == IF v = Empty THEN <<>> ELSE <<"packed", v>>
Transferable(v) == v \in {Empty, "val"}

\* C5: a thread that has dispatched SET_ARGUMENTS with sender A and
\* correlation index c hands its result to A on TearDown: before TearDown no
\* other queue holds anything; after it A's queue holds exactly one message,
\* a FUNCTION_RETURN_RESOLVE with index c and the thread as sender, and no
\* other queue holds any; the payload is the serialized exit value, empty
\* when none was set.
C5_ReturnToParent ==
    /\ [](/\ type_ # "TERMINATED" => \A o \in Others : queue[o] = <<>>
          /\ type_ = "TERMINATED" =>
               /\ spawned # <<>>
               /\ Len(queue[spawned[1]]) = 1
               /\ queue[spawned[1]][1].type = "FUNCTION_RETURN_RESOLVE"
               /\ queue[spawned[1]][1].recv_index = spawned[2]
               /\ queue[spawned[1]][1].sender = Self
               /\ \A o \in Others \ {spawned[1]} : queue[o] = <<>>)
    /\ [][(type_ = "DEFAULT" /\ type_' = "TERMINATED" /\ Transferable(exit_value_)) =>
            queue'[spawned[1]][1].payload = Serialized(exit_value_)]_vars

\* a thread with a parent and an exit value has been torn down
C5_Witness ==
    /\ type_ = "TERMINATED"
    /\ spawned # <<>>
    /\ Len(queue[spawned[1]]) = 1
    /\ queue[spawned[1]][1].payload = Serialized("val")

\* C6: TearDown of a set-up DEFAULT thread that recorded no parent pushes
\* no message, raises no fatal violation and completes with the tables
\* cleared and the type TERMINATED.
C6_TearDownWithoutParent ==
    [][(/\ pc = "idle" /\ type_ = "DEFAULT" /\ iv8_ = "live" /\ tpl_cache_ = "live"
        /\ parent_thread_ = NullHandle
        /\ op' = "TearDown") =>
            /\ pc' # "fatal"
            /\ queue' = queue
            /\ type_' = "TERMINATED"
            /\ timeout_data_' = {} /\ irq_data_' = {} /\ promises_' = {}]_vars

\* C7: the preemption request is issued on every 8th tick that finds the
\* eligibility flag set: after n such ticks floor(n/8) requests have been
\* issued and the counter is n mod 8, hence within 0..7.
C7_RequestEveryEighthTick ==
    /\ irq_requests = eligible_ticks \div 8
    /\ irq_ticks_counter_ = eligible_ticks % 8
    /\ irq_ticks_counter_ \in 0..7

\* the 8th eligible tick has issued the first request and reset the counter
C7_Witness == eligible_ticks = 8 /\ irq_requests = 1 /\ irq_ticks_counter_ = 0

\* generation ids a caller may present
Generations == 0..(MaxExports + 2)

\* C8: every handle Add has returned keeps resolving: Get with the handle's
\* index and generation gives the value added, with the same index and any
\* other generation the empty result, and the index stays within the table
\* (Get's RT_ASSERT cannot fail); the generations handed out are pairwise
\* distinct and increase with the index; no entry ever changes.
C8_ExportHandles ==
    /\ [](/\ \A h \in handles :
               /\ h.index < Len(data_)
               /\ Get(data_, h.index, h.export_id) = h.value
               /\ \A g \in Generations \ {h.export_id} : Get(data_, h.index, g) = Empty
          /\ \A h1, h2 \in handles :
               /\ h1.index < h2.index => h1.export_id < h2.export_id
               /\ h1.index = h2.index => h1 = h2
          /\ Cardinality(handles) = Len(data_))
    /\ [][\A i \in 1..Len(data_) : Len(data_') >= i /\ data_'[i] = data_[i]]_vars

\* two functions have been exported
C8_Witness == Cardinality(handles) >= 2 /\ Len(data_) >= 2

\* C9: an exception thrown while a message is dispatched changes neither
\* the thread's type nor its termination flag, the loop goes on with the
\* next message (all messages of the batch are dispatched when it ends),
\* and the value Run returns depends on the reference count and the
\* termination flag alone.
C9_ExceptionDoesNotAbort ==
    /\ []((LoopDone /\ threw # {}) =>
            /\ Len(dispatched) = Len(messages)
            /\ \A i \in 1..Len(messages) : dispatched[i].uid = messages[i].uid
            /\ type_ = "DEFAULT")
    /\ [][/\ threw' \notin {threw, {}} =>
               /\ type_' = type_
               /\ terminate_' = terminate_
               /\ pc' = "dispatch"
               /\ idx' = idx + 1
          /\ (pc = "dispatch" /\ pc' = "idle") =>
               (retval' = "false" <=> (ref_count_ = 0 \/ terminate_))]_vars

\* a message that is not the last of its batch threw, the batch was
\* dispatched to its end
C9_Witness ==
    /\ LoopDone
    /\ Len(dispatched) = Len(messages)
    /\ \E k \in 1..Len(messages) : k < Len(messages) /\ messages[k].uid \in threw

\* a FUNCTION_CALL through a handle of an existing entry with another generation
StaleCall(m) ==
    /\ m.type = "FUNCTION_CALL"
    /\ m.efn[1] < Len(data_)
    /\ data_[m.efn[1] + 1].export_id # m.efn[2]
\* a TIMEOUT_EVENT or IRQ_RAISE whose id has no entry in its table
NoEntry(m) ==
    \/ m.type = "TIMEOUT_EVENT" /\ m.recv_index \notin timeout_data_
    \/ m.type = "IRQ_RAISE" /\ m.recv_index \notin irq_data_
AtMessage == messages # <<>> /\ idx \in 1..Len(messages)

\* C10 as stated: none of the three stale cases is fatal.
C10_AsStated ==
    (pc = "fatal" /\ op = "Run" /\ AtMessage) =>
        ~(StaleCall(messages[idx]) \/ NoEntry(messages[idx]))

\* C10, amended: a FUNCTION_CALL through a stale handle calls the wrapper
\* once with null, is not fatal, and the batch is dispatched to its end; a
\* TIMEOUT_EVENT or IRQ_RAISE whose id has no entry is not skipped: it is a
\* fatal invariant violation, nothing is invoked for it and the rest of the
\* batch is never dispatched.
C10_StaleHandles ==
    /\ [](/\ InBatch =>
               \A i \in 1..Len(dispatched) :
                   StaleCall(messages[i]) => dispatched[i].effect = "wrapper(null)"
          /\ (pc = "fatal" /\ op = "Run" /\ AtMessage) => ~StaleCall(messages[idx])
          /\ (LoopDone /\ \E i \in 1..Len(messages) : StaleCall(messages[i])) =>
               Len(dispatched) = Len(messages))
    /\ [][(/\ pc = "dispatch" /\ AtMessage /\ NoEntry(messages[idx])
           /\ <<pc, idx>>' # <<pc, idx>>) =>
              /\ pc' = "fatal"
              /\ dispatched' = dispatched]_vars

\* a stale FUNCTION_CALL that was not the last message of its batch called
\* the wrapper with null, and the batch was dispatched to its end
C10_Witness ==
    /\ LoopDone
    /\ Len(dispatched) = Len(messages)
    /\ \E i \in 1..Len(messages) :
         /\ i < Len(messages)
         /\ StaleCall(messages[i])
         /\ dispatched[i].effect = "wrapper(null)"

C12_IdleThread ==
    /\ [](type_ = "IDLE" =>
            /\ iv8_ = "null"
            /\ tpl_cache_ = "null"
            /\ ~context_
            /\ contexts = 0
            /\ lifecycle = <<>>
            /\ pc = "idle"
            /\ retval \in {"none", "true"}
            /\ op = "Run" => retval = "true"
            /\ messages = <<>>
            /\ done = {}
            /\ runNo = 0)
    /\ [][type_ = "IDLE" =>
            /\ <<lifeVars, scopeVars, liveVars, tickVars, exportVars, tableVars,
                  loopVars>>' =
               <<lifeVars, scopeVars, liveVars, tickVars, exportVars, tableVars,
                  loopVars>>
            /\ nextUid' = nextUid => queue' = queue
            /\ nextUid' # nextUid =>
                 /\ Len(queue'[Self]) = Len(queue[Self]) + 1
                 /\ SubSeq(queue'[Self], 1, Len(queue[Self])) = queue[Self]]_vars

\* Run has been called on an idle thread and returned true; messages are
\* waiting in its queue and the tick counter has advanced
C12_Witness ==
    /\ type_ = "IDLE"
    /\ op = "Run"
    /\ retval = "true"
    /\ Len(queue[Self]) >= 2
    /\ ticks_count >= 1

\* the step changes nothing but pc and op: what a failed assertion leaves
OnlyOpChanges ==
    <<retval, lifeVars, scopeVars, liveVars, tickVars, exportVars, tableVars, loopVars,
      envVars>>' =
    <<retval, lifeVars, scopeVars, liveVars, tickVars, exportVars, tableVars, loopVars,
      envVars>>

\* C13: on a DEFAULT thread the calls that complete are, in order, one
\* SetUp, any number of Run calls, and at most one TearDown: a call out of
\* this order (a second SetUp, a second TearDown, a Run or a TearDown
\* before SetUp, any call after TearDown) is fatal and changes nothing;
\* the type is TERMINATED exactly when TearDown has completed, so a Run
\* that returned false leaves the type DEFAULT.
C13_Lifecycle ==
    /\ [](type_ # "IDLE" =>
            /\ lifecycle \in {<<>>, <<"SetUp">>, <<"SetUp", "TearDown">>}
            /\ type_ = "TERMINATED" <=> lifecycle = <<"SetUp", "TearDown">>
            /\ pc \in {"drain", "dispatch", "script"} => lifecycle = <<"SetUp">>
            /\ retval # "none" => lifecycle # <<>>)
    /\ [][(type_ # "IDLE" /\ pc = "idle" /\ nextUid' = nextUid) =>
            /\ \/ pc' = "fatal" /\ OnlyOpChanges
               \/ /\ op' = "SetUp"
                  /\ lifecycle = <<>>
                  /\ lifecycle' = <<"SetUp">>
                  /\ pc' = "idle"
               \/ /\ op' = "Run"
                  /\ lifecycle = <<"SetUp">>
                  /\ lifecycle' = lifecycle
                  /\ pc' = "drain"
               \/ /\ op' = "TearDown"
                  /\ lifecycle = <<"SetUp">>
                  /\ lifecycle' = <<"SetUp", "TearDown">>
                  /\ pc' = "idle"
            /\ (op' = "SetUp" /\ lifecycle # <<>>) => pc' = "fatal"
            /\ (op' \in {"Run", "TearDown"} /\ lifecycle # <<"SetUp">>) => pc' = "fatal"]_vars

\* a thread has been set up, has run a batch, Run has returned false, and
\* TearDown has completed
C13_Witness ==
    /\ type_ = "TERMINATED"
    /\ lifecycle = <<"SetUp", "TearDown">>
    /\ retval = "false"
    /\ done # {}
    /\ pc = "idle"

\* C14 as stated: after TearDown no table holds an entry, the pending
\* deadlines included.
C14_AsStated ==
    type_ = "TERMINATED" =>
        /\ promises_ = {}
        /\ timeout_data_ = {}
        /\ irq_data_ = {}
        /\ timeouts_ = {}

\* C14, amended: after TearDown the promise table, the timeout-callback
\* table and the interrupt-handler table hold no entry, whatever they held
\* before; the pending deadlines registered by SetTimeout are left as they
\* were.
C14_TablesCleared ==
    /\ [](type_ = "TERMINATED" =>
            /\ promises_ = {}
            /\ timeout_data_ = {}
            /\ irq_data_ = {})
    /\ [][(type_ = "DEFAULT" /\ type_' = "TERMINATED") => timeouts_' = timeouts_]_vars

\* TearDown has completed on a thread with a pending deadline: its callback
\* is gone from the table, the deadline is still there
C14_Witness ==
    /\ type_ = "TERMINATED"
    /\ \E e \in timeouts_ : e.id \notin timeout_data_
    /\ timeout_data_ = {}

\* C15: when TearDown of a thread with a parent cannot serialize the exit
\* value, the message pushed to the parent differs from the message pushed
\* for a thread with no exit value and from the one pushed for a
\* serialized exit value.
C15_FailureDelivered ==
    [][(type_ = "DEFAULT" /\ type_' = "TERMINATED" /\ ~Transferable(exit_value_)) =>
          LET q == queue'[parent_thread_]
              msg == q[Len(q)]
          IN
          \A v \in {Empty} \cup ExitValues :
              Transferable(v) => msg # ReturnMessage(parent_promise_id_, Serialized(v))]_vars

\* the TIMEOUT_EVENT messages a Run started in this state promotes
Promoted == {TimeoutEvent(e) : e \in Due(timeouts_, ticks_count)}

\* C16 as stated: the promoted messages are put in front of the messages
\* already in the queue when Run started.
C16_AsStated ==
    [][(pc = "idle" /\ pc' = "drain") =>
          LET q == queue[Self]
              q2 == queue'[Self]
              n == Len(q2) - Len(q)
          IN
          /\ n = Cardinality(Promoted)
          /\ {q2[i] : i \in 1..n} = Promoted
          /\ SubSeq(q2, n + 1, Len(q2)) = q]_vars

\* C16, amended: every TIMEOUT_EVENT a Run call promotes is put behind the
\* messages already in the queue when Run started, which keep their
\* order; the snapshot then taken is the whole queue, so the promoted
\* messages are dispatched in the same batch, after those messages.
C16_PromotedBehind ==
    /\ [][(pc = "idle" /\ pc' = "drain") =>
            LET q == queue[Self]
                q2 == queue'[Self]
                n == Len(q2) - Len(q)
            IN
            /\ n = Cardinality(Promoted)
            /\ {q2[i] : i \in (Len(q) + 1)..Len(q2)} = Promoted
            /\ SubSeq(q2, 1, Len(q)) = q]_vars
    /\ [][(pc = "drain" /\ pc' = "drain") =>
            /\ Len(queue'[Self]) >= Len(queue[Self])
            /\ SubSeq(queue'[Self], 1, Len(queue[Self])) = queue[Self]]_vars
    /\ [][(pc = "drain" /\ pc' = "dispatch") =>
            /\ messages' = queue[Self]
            /\ queue'[Self] = <<>>]_vars
    /\ [](InBatch => \A i \in 1..Len(messages) :
                        ~External(messages[i]) => messages[i].type = "TIMEOUT_EVENT")

\* a batch has been dispatched in which a promoted TIMEOUT_EVENT came
\* after a message pushed from outside
C16_Witness ==
    /\ LoopDone
    /\ Len(dispatched) = Len(messages)
    /\ \E i, j \in 1..Len(messages) :
         /\ i < j
         /\ External(messages[i])
         /\ ~External(messages[j])

\* C17: a DEFAULT thread has no context after SetUp and none until a Run
\* takes a non-empty batch; a Run that finds the queue empty returns true
\* and changes neither the context, the tables nor the termination flag;
\* the context is made by the first Run that takes a non-empty batch, before
\* any message is dispatched; no second context is ever made and the
\* context stays until TearDown.
C17_LazyContext ==
    /\ [](type_ = "DEFAULT" =>
            /\ context_ <=> runNo > 0
            /\ context_ <=> contexts = 1
            /\ (done # {} \/ dispatched # <<>> \/ pc = "script") => context_)
    /\ [](contexts <= 1)
    /\ [][/\ (pc = "idle" /\ pc' = "drain" /\ queue'[Self] = <<>>) =>
               <<context_, contexts, tableVars, terminate_>>' =
               <<context_, contexts, tableVars, terminate_>>
          /\ (pc = "drain" /\ pc' = "idle") =>
               /\ retval' = "true"
               /\ <<context_, contexts, tableVars, terminate_>>' =
                  <<context_, contexts, tableVars, terminate_>>
          /\ contexts' # contexts =>
               /\ ~context_
               /\ context_'
               /\ pc = "drain"
               /\ pc' = "dispatch"
               /\ messages' # <<>>
               /\ dispatched' = <<>>
          /\ (context_ /\ ~context_') => (op' = "TearDown" /\ type_' = "TERMINATED")]_vars

\* a second non-empty batch has been dispatched in the context the first
\* one made
C17_Witness ==
    /\ type_ = "DEFAULT"
    /\ LoopDone
    /\ runNo >= 2
    /\ context_
    /\ contexts = 1

C19_ExceptionLogged ==
    [][/\ (pc = "dispatch" /\ pc' = "idle" /\ trycatch # 0) =>
            /\ trycatch \in logged'
            /\ trycatch' = 0
       /\ logged' # logged =>
            /\ pc = "dispatch"
            /\ pc' = "idle"
            /\ logged' = logged \cup {trycatch}
            /\ trycatch \in threw]_vars

\* C20: a Run that returns false leaves the termination flag set; no step
\* of Run, TimerTick or SetTimeout clears the flag; and a Run that has
\* dispatched a non-empty batch with the flag set returns false, whatever
\* the reference count is.
C20_StickyTermination ==
    [][/\ terminate_ => terminate_'
       /\ (pc = "dispatch" /\ pc' = "idle" /\ retval' = "false") => terminate_'
       /\ (pc = "dispatch" /\ pc' = "idle" /\ terminate_) => retval' = "false"]_vars

\* a Run has returned false with the reference count above zero: the flag
\* had been set by an earlier Run that returned false
C20_Witness ==
    /\ Returned
    /\ retval = "false"
    /\ terminate_
    /\ ref_count_ > 0
    /\ runNo >= 2

====
